---- MODULE Spec2Model ----
(***************************************************************************)
(* Model of the button pipeline of bekantfirmware (btn/btn.c, btn/btn.h):  *)
(* the debounce filter btn_debounce, the gesture recognizer btn_gesture    *)
(* and the tick handler btn_timer that dispatches gesture changes to the   *)
(* callback btn_report_gesture.                                            *)
(***************************************************************************)
EXTENDS Integers, Naturals, Sequences, FiniteSets, TLC

\* ---- program constants (btn.c) ----
DEBOUNCE_THRESHOLD == 200
SAVE_HOLD_THRESHOLD == 60
DOUBLE_CLICK_WINDOW == 10
\* width of the uint8_t counters
UINT8 == 256

\* ---- INPUT_t (btn.h) ----
INPUT_IDLE == "INPUT_IDLE"
INPUT_UP == "INPUT_UP"
INPUT_DOWN == "INPUT_DOWN"
INPUT_DOUBLE_UP == "INPUT_DOUBLE_UP"
INPUT_DOUBLE_DOWN == "INPUT_DOUBLE_DOWN"
INPUT_SAVE == "INPUT_SAVE"
INPUT_t == {INPUT_IDLE, INPUT_UP, INPUT_DOWN, INPUT_DOUBLE_UP, INPUT_DOUBLE_DOWN, INPUT_SAVE}

\* ---- ButtonState_t: the two PORTB bits, active low ----
ButtonState_t == [UP : {0, 1}, DOWN : {0, 1}]
PRESSED(b) == b = 0
RELEASED(b) == b = 1
BUTTON_CHANGE(a, b) == (a.UP # b.UP) \/ (a.DOWN # b.DOWN)

\* the four input shapes
UpOnly == [UP |-> 0, DOWN |-> 1]
DownOnly == [UP |-> 1, DOWN |-> 0]
Both == [UP |-> 0, DOWN |-> 0]
Neither == [UP |-> 1, DOWN |-> 1]

\* ---- bounds of the observers ----
\* a constant run of raw samples is followed for MaxPeriods debounce periods
MaxPeriods == 3
\* confirmed ticks counted after a release (saturating)
MaxGap == 12

VARIABLES
    debouncer,          \* static Debounce_t debouncer of btn_debounce
    input,              \* static InputState_t input of btn_gesture
    last_input,         \* static INPUT_t last_input of btn_timer
    btn_report_gesture, \* the callback pointer: "null" or "set"
    timer_on,           \* Timer2 running with its interrupt enabled (TMR2ON, TMR2IE)
    fault,              \* TRUE once a call through the null pointer has trapped
    confirmed,          \* observer: return value of btn_debounce on the last tick
    called,             \* observer: gesture passed to the callback on the last tick, or "none"
    last_called,        \* observer: gesture of the most recent callback invocation, or "none"
    run,                \* observer: ticks since the raw sample last changed, -1 before any change
    pre,                \* observer: InputState_t before the last btn_gesture call
    last_btn,           \* observer: argument of the last btn_gesture call
    single,             \* observer: progress of a single click (0, 1 pressed, 2 released)
    click,              \* observer: progress of a clean click from Idle with no flag set
    second,             \* observer: the second press that ended a clean click on this tick
    since_up,           \* observer: confirmed ticks since the last Up->Idle release, -1 if none
    since_down,         \* observer: confirmed ticks since the last Down->Idle release, -1 if none
    both_run,           \* observer: consecutive confirmed Both ticks (saturating)
    idle_both_run       \* observer: consecutive confirmed Both ticks begun in Idle (saturating)

prog == <<debouncer, input, last_input, btn_report_gesture, timer_on, fault>>
obsTimer == <<called, last_called>>
obsDebounce == <<run>>
obsGesture == <<pre, last_btn, single, click, second, since_up, since_down, both_run, idle_both_run>>
vars == <<prog, confirmed, obsTimer, obsDebounce, obsGesture>>

\* variant of btn_debounce that keeps the count when the sample changes
btn_debounce_keep_count(d, now_btn) ==
    LET d1 == IF BUTTON_CHANGE(d.last_state, now_btn)
              THEN [d EXCEPT !.last_state = now_btn]
              ELSE [d EXCEPT !.count = (d.count + 1) % UINT8]
    IN IF d1.count >= DEBOUNCE_THRESHOLD
       THEN [deb |-> [d1 EXCEPT !.count = 0], ret |-> TRUE]
       ELSE [deb |-> d1, ret |-> FALSE]

\* variant of btn_debounce that does not restart the count after confirming
btn_debounce_no_restart(d, now_btn) ==
    LET d1 == IF BUTTON_CHANGE(d.last_state, now_btn)
              THEN [count |-> 0, last_state |-> now_btn]
              ELSE [d EXCEPT !.count = (d.count + 1) % UINT8]
    IN IF d1.count >= DEBOUNCE_THRESHOLD
       THEN [deb |-> d1, ret |-> TRUE]
       ELSE [deb |-> d1, ret |-> FALSE]

\* variant of btn_debounce that counts the changing sample as the first of its run
btn_debounce_counts_change(d, now_btn) ==
    LET d1 == IF BUTTON_CHANGE(d.last_state, now_btn)
              THEN [count |-> 1, last_state |-> now_btn]
              ELSE [d EXCEPT !.count = (d.count + 1) % UINT8]
    IN IF d1.count >= DEBOUNCE_THRESHOLD
       THEN [deb |-> [d1 EXCEPT !.count = 0], ret |-> TRUE]
       ELSE [deb |-> d1, ret |-> FALSE]

\* ---- btn_debounce: new debouncer and return value ----
btn_debounce(d, now_btn) ==
    LET d1 == IF BUTTON_CHANGE(d.last_state, now_btn)
              THEN [count |-> 0, last_state |-> now_btn]
              ELSE [d EXCEPT !.count = (d.count + 1) % UINT8]
    IN IF d1.count >= DEBOUNCE_THRESHOLD
       THEN [deb |-> [d1 EXCEPT !.count = 0], ret |-> TRUE]
       ELSE [deb |-> d1, ret |-> FALSE]

\* variant of the timer prologue that never clears the waiting flags
gesture_timer_no_expiry(in) ==
    IF in.double_click_timer > 0
    THEN [in EXCEPT !.double_click_timer = in.double_click_timer - 1]
    ELSE in

\* ---- btn_gesture: the timer prologue ----
gesture_timer(in) ==
    IF in.double_click_timer > 0
    THEN LET t == in.double_click_timer - 1
         IN IF t = 0
            THEN [in EXCEPT !.double_click_timer = 0,
                            !.waiting_for_second_up = FALSE,
                            !.waiting_for_second_down = FALSE]
            ELSE [in EXCEPT !.double_click_timer = t]
    ELSE in

\* variant of case INPUT_IDLE that enters Save one tick late
gesture_idle_late_save(in, btn) ==
    IF PRESSED(btn.UP) /\ RELEASED(btn.DOWN)
    THEN IF in.waiting_for_second_up
         THEN [in EXCEPT !.waiting_for_second_up = FALSE,
                         !.double_click_timer = 0,
                         !.state = INPUT_DOUBLE_UP]
         ELSE [in EXCEPT !.state = INPUT_UP]
    ELSE IF RELEASED(btn.UP) /\ PRESSED(btn.DOWN)
    THEN IF in.waiting_for_second_down
         THEN [in EXCEPT !.waiting_for_second_down = FALSE,
                         !.double_click_timer = 0,
                         !.state = INPUT_DOUBLE_DOWN]
         ELSE [in EXCEPT !.state = INPUT_DOWN]
    ELSE IF PRESSED(btn.UP) /\ PRESSED(btn.DOWN)
    THEN LET h == (in.save_hold + 1) % UINT8
         IN IF h > SAVE_HOLD_THRESHOLD
            THEN [in EXCEPT !.save_hold = 0, !.state = INPUT_SAVE]
            ELSE [in EXCEPT !.save_hold = h, !.state = INPUT_IDLE]
    ELSE [in EXCEPT !.state = INPUT_IDLE]

\* variant of case INPUT_IDLE that keeps save_hold when Save is entered
gesture_idle_keeps_hold(in, btn) ==
    IF PRESSED(btn.UP) /\ RELEASED(btn.DOWN)
    THEN IF in.waiting_for_second_up
         THEN [in EXCEPT !.waiting_for_second_up = FALSE,
                         !.double_click_timer = 0,
                         !.state = INPUT_DOUBLE_UP]
         ELSE [in EXCEPT !.state = INPUT_UP]
    ELSE IF RELEASED(btn.UP) /\ PRESSED(btn.DOWN)
    THEN IF in.waiting_for_second_down
         THEN [in EXCEPT !.waiting_for_second_down = FALSE,
                         !.double_click_timer = 0,
                         !.state = INPUT_DOUBLE_DOWN]
         ELSE [in EXCEPT !.state = INPUT_DOWN]
    ELSE IF PRESSED(btn.UP) /\ PRESSED(btn.DOWN)
    THEN LET h == (in.save_hold + 1) % UINT8
         IN IF h >= SAVE_HOLD_THRESHOLD
            THEN [in EXCEPT !.save_hold = h, !.state = INPUT_SAVE]
            ELSE [in EXCEPT !.save_hold = h, !.state = INPUT_IDLE]
    ELSE [in EXCEPT !.state = INPUT_IDLE]

\* ---- btn_gesture, case INPUT_IDLE ----
gesture_idle(in, btn) ==
    IF PRESSED(btn.UP) /\ RELEASED(btn.DOWN)
    THEN IF in.waiting_for_second_up
         THEN [in EXCEPT !.waiting_for_second_up = FALSE,
                         !.double_click_timer = 0,
                         !.state = INPUT_DOUBLE_UP]
         ELSE [in EXCEPT !.state = INPUT_UP]
    ELSE IF RELEASED(btn.UP) /\ PRESSED(btn.DOWN)
    THEN IF in.waiting_for_second_down
         THEN [in EXCEPT !.waiting_for_second_down = FALSE,
                         !.double_click_timer = 0,
                         !.state = INPUT_DOUBLE_DOWN]
         ELSE [in EXCEPT !.state = INPUT_DOWN]
    ELSE IF PRESSED(btn.UP) /\ PRESSED(btn.DOWN)
    THEN LET h == (in.save_hold + 1) % UINT8
         IN IF h >= SAVE_HOLD_THRESHOLD
            THEN [in EXCEPT !.save_hold = 0, !.state = INPUT_SAVE]
            ELSE [in EXCEPT !.save_hold = h, !.state = INPUT_IDLE]
    ELSE [in EXCEPT !.state = INPUT_IDLE]

\* ---- btn_gesture, case INPUT_SAVE ----
gesture_save(in, btn) ==
    IF PRESSED(btn.UP) /\ PRESSED(btn.DOWN)
    THEN [in EXCEPT !.state = INPUT_SAVE]
    ELSE [in EXCEPT !.state = INPUT_IDLE]

\* variant of case INPUT_UP whose release arms a window one tick short
gesture_up_short_window(in, btn) ==
    IF PRESSED(btn.UP) /\ RELEASED(btn.DOWN)
    THEN [in EXCEPT !.state = INPUT_UP]
    ELSE IF RELEASED(btn.UP) /\ PRESSED(btn.DOWN)
    THEN [in EXCEPT !.state = INPUT_DOWN]
    ELSE IF RELEASED(btn.UP) /\ RELEASED(btn.DOWN)
    THEN [in EXCEPT !.waiting_for_second_up = TRUE,
                    !.double_click_timer = DOUBLE_CLICK_WINDOW - 1,
                    !.state = INPUT_IDLE]
    ELSE IF PRESSED(btn.UP) /\ PRESSED(btn.DOWN)
    THEN [in EXCEPT !.state = INPUT_IDLE]
    ELSE in

\* variant of case INPUT_UP whose release does not set the waiting flag
gesture_up_no_flag(in, btn) ==
    IF PRESSED(btn.UP) /\ RELEASED(btn.DOWN)
    THEN [in EXCEPT !.state = INPUT_UP]
    ELSE IF RELEASED(btn.UP) /\ PRESSED(btn.DOWN)
    THEN [in EXCEPT !.state = INPUT_DOWN]
    ELSE IF RELEASED(btn.UP) /\ RELEASED(btn.DOWN)
    THEN [in EXCEPT !.double_click_timer = DOUBLE_CLICK_WINDOW,
                    !.state = INPUT_IDLE]
    ELSE IF PRESSED(btn.UP) /\ PRESSED(btn.DOWN)
    THEN [in EXCEPT !.state = INPUT_IDLE]
    ELSE in

\* ---- btn_gesture, case INPUT_UP ----
gesture_up(in, btn) ==
    IF PRESSED(btn.UP) /\ RELEASED(btn.DOWN)
    THEN [in EXCEPT !.state = INPUT_UP]
    ELSE IF RELEASED(btn.UP) /\ PRESSED(btn.DOWN)
    THEN [in EXCEPT !.state = INPUT_DOWN]
    ELSE IF RELEASED(btn.UP) /\ RELEASED(btn.DOWN)
    THEN [in EXCEPT !.waiting_for_second_up = TRUE,
                    !.double_click_timer = DOUBLE_CLICK_WINDOW,
                    !.state = INPUT_IDLE]
    ELSE IF PRESSED(btn.UP) /\ PRESSED(btn.DOWN)
    THEN [in EXCEPT !.state = INPUT_IDLE]
    ELSE in

\* variant of case INPUT_DOWN whose release also clears save_hold
gesture_down_clears_hold(in, btn) ==
    IF PRESSED(btn.UP) /\ RELEASED(btn.DOWN)
    THEN [in EXCEPT !.state = INPUT_UP]
    ELSE IF RELEASED(btn.UP) /\ PRESSED(btn.DOWN)
    THEN [in EXCEPT !.state = INPUT_DOWN]
    ELSE IF RELEASED(btn.UP) /\ RELEASED(btn.DOWN)
    THEN [in EXCEPT !.waiting_for_second_down = TRUE,
                    !.double_click_timer = DOUBLE_CLICK_WINDOW,
                    !.save_hold = 0,
                    !.state = INPUT_IDLE]
    ELSE IF PRESSED(btn.UP) /\ PRESSED(btn.DOWN)
    THEN [in EXCEPT !.state = INPUT_IDLE]
    ELSE in

\* variant of case INPUT_DOWN in which Both arms the double-click window too
gesture_down_both_arms(in, btn) ==
    IF PRESSED(btn.UP) /\ RELEASED(btn.DOWN)
    THEN [in EXCEPT !.state = INPUT_UP]
    ELSE IF RELEASED(btn.UP) /\ PRESSED(btn.DOWN)
    THEN [in EXCEPT !.state = INPUT_DOWN]
    ELSE [in EXCEPT !.waiting_for_second_down = TRUE,
                    !.double_click_timer = DOUBLE_CLICK_WINDOW,
                    !.state = INPUT_IDLE]

\* ---- btn_gesture, case INPUT_DOWN ----
gesture_down(in, btn) ==
    IF PRESSED(btn.UP) /\ RELEASED(btn.DOWN)
    THEN [in EXCEPT !.state = INPUT_UP]
    ELSE IF RELEASED(btn.UP) /\ PRESSED(btn.DOWN)
    THEN [in EXCEPT !.state = INPUT_DOWN]
    ELSE IF RELEASED(btn.UP) /\ RELEASED(btn.DOWN)
    THEN [in EXCEPT !.waiting_for_second_down = TRUE,
                    !.double_click_timer = DOUBLE_CLICK_WINDOW,
                    !.state = INPUT_IDLE]
    ELSE IF PRESSED(btn.UP) /\ PRESSED(btn.DOWN)
    THEN [in EXCEPT !.state = INPUT_IDLE]
    ELSE in

\* variant of case INPUT_DOUBLE_UP that treats a press of the other line as new
gesture_double_up_reevaluates(in, btn) ==
    IF RELEASED(btn.UP) /\ RELEASED(btn.DOWN)
    THEN [in EXCEPT !.state = INPUT_IDLE]
    ELSE IF RELEASED(btn.UP) /\ PRESSED(btn.DOWN)
    THEN [in EXCEPT !.state = INPUT_DOWN]
    ELSE [in EXCEPT !.state = INPUT_DOUBLE_UP]

\* ---- btn_gesture, case INPUT_DOUBLE_UP ----
gesture_double_up(in, btn) ==
    IF RELEASED(btn.UP) /\ RELEASED(btn.DOWN)
    THEN [in EXCEPT !.state = INPUT_IDLE]
    ELSE [in EXCEPT !.state = INPUT_DOUBLE_UP]

\* variant of case INPUT_DOUBLE_DOWN that a release does not leave
gesture_double_down_stuck(in, btn) == [in EXCEPT !.state = INPUT_DOUBLE_DOWN]

\* ---- btn_gesture, case INPUT_DOUBLE_DOWN ----
gesture_double_down(in, btn) ==
    IF RELEASED(btn.UP) /\ RELEASED(btn.DOWN)
    THEN [in EXCEPT !.state = INPUT_IDLE]
    ELSE [in EXCEPT !.state = INPUT_DOUBLE_DOWN]

\* ---- btn_gesture: the switch on input.state ----
gesture_switch(in, btn) ==
    CASE in.state = INPUT_IDLE -> gesture_idle(in, btn)
      [] in.state = INPUT_SAVE -> gesture_save(in, btn)
      [] in.state = INPUT_UP -> gesture_up(in, btn)
      [] in.state = INPUT_DOWN -> gesture_down(in, btn)
      [] in.state = INPUT_DOUBLE_UP -> gesture_double_up(in, btn)
      [] in.state = INPUT_DOUBLE_DOWN -> gesture_double_down(in, btn)

\* ---- btn_gesture: new InputState_t (the return value is its .state) ----
btn_gesture(in, btn) == gesture_switch(gesture_timer(in), btn)

\* ---- static initialisers ----
DebouncerInit == [count |-> 0, last_state |-> [UP |-> 0, DOWN |-> 0]]
InputInit == [save_hold |-> 0, double_click_timer |-> 0,
              waiting_for_second_up |-> FALSE, waiting_for_second_down |-> FALSE,
              state |-> INPUT_IDLE]

NoBtn == [UP |-> 2, DOWN |-> 2]
NoClick == [line |-> "none", phase |-> "none", n |-> 0]
NoSecond == [line |-> "none", n |-> 0]

Init ==
    /\ debouncer = DebouncerInit
    /\ input = InputInit
    /\ last_input = INPUT_IDLE
    /\ btn_report_gesture = "null"
    /\ timer_on = FALSE
    /\ fault = FALSE
    /\ confirmed = FALSE
    /\ called = "none"
    /\ last_called = "none"
    /\ run = -1
    /\ pre = InputInit
    /\ last_btn = NoBtn
    /\ single = 0
    /\ click = NoClick
    /\ second = NoSecond
    /\ since_up = -1
    /\ since_down = -1
    /\ both_run = 0
    /\ idle_both_run = 0

\* ---- the consumer stores a handler in the callback pointer, before the first tick ----
SetReportGesture ==
    /\ ~timer_on
    /\ btn_report_gesture = "null"
    /\ btn_report_gesture' = "set"
    /\ UNCHANGED <<debouncer, input, last_input, timer_on, fault, confirmed, obsTimer, obsDebounce, obsGesture>>

\* ---- btn_init: start Timer2 at 4000 Hz and enable its interrupt ----
btn_init ==
    /\ ~timer_on
    /\ timer_on' = TRUE
    /\ UNCHANGED <<debouncer, input, last_input, btn_report_gesture, fault, confirmed, obsTimer, obsDebounce, obsGesture>>

\* variant of the test that reports every confirmed gesture
gesture_changed_always(g, last) == TRUE

\* variant of the test that never sees a new gesture
gesture_changed_never(g, last) == FALSE

\* ---- btn_timer: the test that a gesture is new ----
gesture_changed(g, last) == g # last

\* variant of btn_timer that runs the recognizer and dispatcher on every tick
btn_timer_ignores_debounce(button_state) ==
    /\ timer_on
    /\ ~fault
    /\ \E r \in {btn_debounce(debouncer, button_state)} :
          /\ debouncer' = r.deb
          /\ confirmed' = r.ret
          /\ \E g \in {btn_gesture(input, button_state)} :
                /\ input' = g
                /\ IF gesture_changed(g.state, last_input)
                   THEN /\ last_input' = g.state
                        /\ IF btn_report_gesture = "set"
                           THEN /\ called' = g.state
                                /\ last_called' = g.state
                                /\ fault' = FALSE
                           ELSE /\ called' = "none"
                                /\ UNCHANGED last_called
                                /\ fault' \in {FALSE, TRUE}
                   ELSE /\ UNCHANGED <<last_input, fault, last_called>>
                        /\ called' = "none"
    /\ UNCHANGED <<btn_report_gesture, timer_on, obsDebounce, obsGesture>>

\* ---- btn_timer, run with the static debouncer holding d ----
btn_timer_from(d, button_state) ==
    /\ timer_on
    /\ ~fault
    /\ \E r \in {btn_debounce(d, button_state)} :
          /\ debouncer' = r.deb
          /\ confirmed' = r.ret
          /\ IF r.ret
             THEN \E g \in {btn_gesture(input, button_state)} :
                  /\ input' = g
                  /\ IF gesture_changed(g.state, last_input)
                     THEN /\ last_input' = g.state
                          /\ IF btn_report_gesture = "set"
                             THEN /\ called' = g.state
                                  /\ last_called' = g.state
                                  /\ fault' = FALSE
                             \* call through a null function pointer: undefined;
                             \* the jump may fall through harmlessly or trap
                             ELSE /\ called' = "none"
                                  /\ UNCHANGED last_called
                                  /\ fault' \in {FALSE, TRUE}
                     ELSE /\ UNCHANGED <<last_input, fault, last_called>>
                          /\ called' = "none"
             ELSE /\ UNCHANGED <<input, last_input, fault, last_called>>
                  /\ called' = "none"
    /\ UNCHANGED <<btn_report_gesture, timer_on, obsDebounce, obsGesture>>

\* ---- btn_timer: one Timer2 tick reading button_state from PORTB ----
btn_timer(button_state) == btn_timer_from(debouncer, button_state)

Tick == \E b \in ButtonState_t : btn_timer(b)

\* the documented use: the consumer installs its handler, then starts the timer
Start == btn_report_gesture = "set" /\ btn_init

Next == SetReportGesture \/ Start \/ Tick

Spec == Init /\ [][Next]_vars

\* ---- the same program when the consumer never installs a handler ----
StartUnset == btn_report_gesture = "null" /\ btn_init

NextUnset == StartUnset \/ Tick

SpecUnset == Init /\ [][NextUnset]_vars

\* ---- the pipeline with Timer2 firing for ever ----
\* one more reading of b by btn_debounce unless that reading would confirm it
unconfirmed_tick(d, b) ==
    LET r == btn_debounce(d, b) IN IF r.ret THEN d ELSE r.deb

\* The debouncer after n readings of b, stopping short of the confirming one
\* (computed by halving n, the readings being applied in order).
RECURSIVE debounce_before_confirm(_, _, _)
debounce_before_confirm(d, b, n) ==
    IF n = 0 THEN d
    ELSE IF n = 1 THEN unconfirmed_tick(d, b)
    ELSE CHOOSE x \in {debounce_before_confirm(h, b, n - (n \div 2)) :
                          h \in {debounce_before_confirm(d, b, n \div 2)}} : TRUE

\* the debouncer states a stretch of equal samples is begun in: count 0
HoldStarts == [count : {0}, last_state : ButtonState_t]

\* for each of them and each sample, the debouncer just before the confirming tick
HoldTable ==
    {<<d, b, debounce_before_confirm(d, b, DEBOUNCE_THRESHOLD)>> :
        d \in HoldStarts, b \in ButtonState_t}

\* sample b is read on consecutive ticks up to and including the tick that
\* confirms it: unconfirmed ticks touch the debouncer only, the last is btn_timer.
\* Such a stretch is begun where the count is 0; begun anywhere else in a run it
\* would end in the same state.
Hold(b) ==
    /\ debouncer.count = 0
    /\ \E t \in HoldTable :
          /\ t[1] = debouncer
          /\ t[2] = b
          /\ btn_timer_from(t[3], b)

\* a release is followed tick by tick, earlier samples a confirmation at a time
TickLive == btn_timer(Neither) \/ (\E b \in ButtonState_t : Hold(b))

NextLive == SetReportGesture \/ Start \/ TickLive

SpecLive == Init /\ [][NextLive]_vars /\ WF_vars(TickLive)

\* ---- the debouncer alone, driven by arbitrary raw samples ----
RunNext(d, b) ==
    IF BUTTON_CHANGE(d.last_state, b) THEN 0
    ELSE IF run < 0 THEN -1 ELSE run + 1

DebounceStep(b) ==
    /\ RunNext(debouncer, b) <= MaxPeriods * DEBOUNCE_THRESHOLD
    /\ LET r == btn_debounce(debouncer, b)
       IN /\ debouncer' = r.deb
          /\ confirmed' = r.ret
    /\ run' = RunNext(debouncer, b)
    /\ UNCHANGED <<input, last_input, btn_report_gesture, timer_on, fault, obsTimer, obsGesture>>

NextDebounce == \E b \in ButtonState_t : DebounceStep(b)

SpecDebounce == Init /\ [][NextDebounce]_vars

\* ---- the recognizer alone, driven by arbitrary confirmed samples ----
Sat(n, cap) == IF n >= cap THEN cap ELSE n

IsPress(btn) == btn = UpOnly \/ btn = DownOnly
LineOf(btn) == IF btn = UpOnly THEN "up" ELSE "down"

SingleNext(in, btn) ==
    IF in.state = INPUT_IDLE /\ ~in.waiting_for_second_up /\ btn = UpOnly THEN 1
    ELSE IF single = 1 /\ btn = Neither THEN 2
    ELSE 0

ClickNext(in, btn) ==
    IF /\ in.state = INPUT_IDLE
       /\ ~in.waiting_for_second_up
       /\ ~in.waiting_for_second_down
       /\ IsPress(btn)
    THEN [line |-> LineOf(btn), phase |-> "pressed", n |-> 0]
    ELSE IF click.phase = "pressed" /\ btn = Neither
    THEN [click EXCEPT !.phase = "released", !.n = 0]
    ELSE IF click.phase = "released" /\ btn = Neither
    THEN [click EXCEPT !.n = Sat(click.n + 1, MaxGap)]
    ELSE NoClick

SecondNext(btn) ==
    IF click.phase = "released" /\ IsPress(btn) /\ LineOf(btn) = click.line
    THEN [line |-> click.line, n |-> Sat(click.n + 1, MaxGap)]
    ELSE NoSecond

SinceNext(since, in, from, btn) ==
    IF in.state = from /\ btn = Neither THEN 0
    ELSE IF since < 0 THEN -1
    ELSE Sat(since + 1, MaxGap)

GestureStep(btn) ==
    /\ input' = btn_gesture(input, btn)
    /\ pre' = input
    /\ last_btn' = btn
    /\ single' = SingleNext(input, btn)
    /\ click' = ClickNext(input, btn)
    /\ second' = SecondNext(btn)
    /\ since_up' = SinceNext(since_up, input, INPUT_UP, btn)
    /\ since_down' = SinceNext(since_down, input, INPUT_DOWN, btn)
    /\ both_run' = IF btn = Both THEN Sat(both_run + 1, SAVE_HOLD_THRESHOLD) ELSE 0
    /\ idle_both_run' = IF btn = Both /\ (idle_both_run > 0 \/ input.state = INPUT_IDLE)
                        THEN Sat(idle_both_run + 1, SAVE_HOLD_THRESHOLD)
                        ELSE 0
    /\ UNCHANGED <<debouncer, last_input, btn_report_gesture, timer_on, fault, confirmed, obsTimer, obsDebounce>>

NextGesture == \E btn \in ButtonState_t : GestureStep(btn)

SpecGesture == Init /\ [][NextGesture]_vars

(***************************************************************************)
(* Properties                                                              *)
(***************************************************************************)

\* C1: dispatch de-duplication. With a handler installed, on every tick the
\* callback is invoked (once, with the new gesture) exactly when the tick is
\* confirmed and btn_gesture's result differs from the previously reported
\* gesture last_input; it is not invoked on any other tick, and the gesture it
\* carries differs from the one carried by the previous invocation.
C1_DispatchDedup ==
    [][ btn_report_gesture = "set" =>
          /\ (confirmed' /\ input'.state # last_input)
                => (called' = input'.state /\ called' # last_called)
          /\ ~(confirmed' /\ input'.state # last_input)
                => called' = "none" ]_vars

\* a confirmed tick that repeats the gesture Up already reported: no call
C1_Witness ==
    /\ btn_report_gesture = "set"
    /\ confirmed
    /\ called = "none"
    /\ last_called = INPUT_UP
    /\ input.state = INPUT_UP
    /\ last_input = INPUT_UP

\* C2: with the callback never set, no tick reaches a failure: reporting a
\* gesture change through the unset pointer is a safe no-op.
C2_NullCallbackSafe == btn_report_gesture = "null" => ~fault

\* C3: debounce suppression. If the raw sample changed at tick t, btn_debounce
\* returns false on every tick from t through t+THRESHOLD-1, i.e. whenever
\* fewer than THRESHOLD ticks have passed since the last change.
C3_DebounceSuppression ==
    (run >= 0 /\ run < DEBOUNCE_THRESHOLD) => ~confirmed

\* the last suppressed tick of a run
C3_Witness == run = DEBOUNCE_THRESHOLD - 1 /\ ~confirmed /\ debouncer.count = run

\* C4: debounce periodicity. Counting ticks from the change that starts a
\* constant run (tick 0), btn_debounce returns true exactly at the positive
\* multiples of THRESHOLD and false on every other tick of the run.
C4_DebouncePeriodicity ==
    run >= 0 => (confirmed <=> (run > 0 /\ run % DEBOUNCE_THRESHOLD = 0))

\* the second confirmation of a held sample
C4_Witness == run = 2 * DEBOUNCE_THRESHOLD /\ confirmed

GestureOfLine(line) == IF line = "up" THEN INPUT_DOUBLE_UP ELSE INPUT_DOUBLE_DOWN

\* C5 (as claimed): after a clean click from Idle with no waiting flag
\* (press, release, then only Neither), a second press of the same line on the
\* n-th confirmed tick after the release, for every n in
\* 1..DOUBLE_CLICK_WINDOW, ends in DoubleUp (resp. DoubleDown).
C5_DoubleClickWithinWindow ==
    (second.line # "none" /\ second.n \in 1..DOUBLE_CLICK_WINDOW)
        => input.state = GestureOfLine(second.line)

\* C5 (amended): the same for every n in 1..DOUBLE_CLICK_WINDOW-1; the
\* tick that brings the timer to 0 is already outside the window.
C5_DoubleClickInsideWindow ==
    (second.line # "none" /\ second.n \in 1..(DOUBLE_CLICK_WINDOW - 1))
        => input.state = GestureOfLine(second.line)

\* a double click on the last tick of the window
C5_Witness ==
    /\ second.line = "up"
    /\ second.n = DOUBLE_CLICK_WINDOW - 1
    /\ input.state = INPUT_DOUBLE_UP

\* C6: double click window expiry. After a clean click from Idle with no
\* waiting flag, a second UpOnly that follows at least DOUBLE_CLICK_WINDOW
\* confirmed Neither ticks (the release included) yields Up, not DoubleUp.
C6_WindowExpiry ==
    (second.line = "up" /\ second.n >= DOUBLE_CLICK_WINDOW)
        => input.state = INPUT_UP

\* the second press arrives exactly DOUBLE_CLICK_WINDOW ticks after the release
C6_Witness ==
    /\ second.line = "up"
    /\ second.n = DOUBLE_CLICK_WINDOW
    /\ input.state = INPUT_UP

\* C7: a press is a double click only inside the window. DoubleUp (resp.
\* DoubleDown) is entered only if an Up->Idle (resp. Down->Idle) release by a
\* confirmed Neither happened at most DOUBLE_CLICK_WINDOW confirmed ticks
\* earlier; a press in Idle that comes later than that after the last release
\* of its line is a new single click.
C7_DoubleOnlyInsideWindow ==
    /\ (pre.state # INPUT_DOUBLE_UP /\ input.state = INPUT_DOUBLE_UP)
          => since_up \in 1..DOUBLE_CLICK_WINDOW
    /\ (pre.state # INPUT_DOUBLE_DOWN /\ input.state = INPUT_DOUBLE_DOWN)
          => since_down \in 1..DOUBLE_CLICK_WINDOW
    /\ (pre.state = INPUT_IDLE /\ last_btn = UpOnly /\ since_up > DOUBLE_CLICK_WINDOW)
          => input.state = INPUT_UP
    /\ (pre.state = INPUT_IDLE /\ last_btn = DownOnly /\ since_down > DOUBLE_CLICK_WINDOW)
          => input.state = INPUT_DOWN

\* C8: single click. From Idle with waiting_for_second_up false, a confirmed
\* UpOnly gives Up and a following confirmed Neither gives Idle with
\* waiting_for_second_up set and double_click_timer = DOUBLE_CLICK_WINDOW.
C8_SingleClick ==
    /\ single = 1 => (pre.state = INPUT_IDLE /\ input.state = INPUT_UP)
    /\ single = 2 => /\ pre.state = INPUT_UP
                     /\ input.state = INPUT_IDLE
                     /\ input.waiting_for_second_up
                     /\ input.double_click_timer = DOUBLE_CLICK_WINDOW

\* a completed single click made while the other fields were not at their defaults
C8_Witness ==
    /\ single = 2
    /\ input.waiting_for_second_down
    /\ input.save_hold > 0

\* C9: save hold. After SAVE_HOLD_THRESHOLD consecutive confirmed Both ticks
\* that began in Idle the gesture is Save; from Save a further confirmed Both
\* keeps Save and a confirmed Neither returns to Idle.
C9_SaveHold ==
    /\ idle_both_run >= SAVE_HOLD_THRESHOLD => input.state = INPUT_SAVE
    /\ (pre.state = INPUT_SAVE /\ last_btn = Both) => input.state = INPUT_SAVE
    /\ (pre.state = INPUT_SAVE /\ last_btn = Neither) => input.state = INPUT_IDLE

\* Save entered on the last of SAVE_HOLD_THRESHOLD Both ticks from a fresh Idle
C9_Witness ==
    /\ idle_both_run = SAVE_HOLD_THRESHOLD
    /\ both_run = SAVE_HOLD_THRESHOLD
    /\ pre.state = INPUT_IDLE
    /\ pre.save_hold = SAVE_HOLD_THRESHOLD - 1
    /\ input.state = INPUT_SAVE

\* C10: Save requires a sustained hold. Save is entered only on a confirmed
\* Both tick that is the last of at least SAVE_HOLD_THRESHOLD consecutive
\* confirmed Both ticks.
C10_SaveNeedsSustainedHold ==
    (pre.state # INPUT_SAVE /\ input.state = INPUT_SAVE)
        => (last_btn = Both /\ both_run >= SAVE_HOLD_THRESHOLD)

\* C11: sticky double states. From DoubleUp (resp. DoubleDown) every confirmed
\* UpOnly, DownOnly or Both leaves the gesture where it is, a confirmed Neither
\* moves it to Idle, and no other state directly follows a double state.
C11_StickyDouble ==
    /\ (pre.state = INPUT_DOUBLE_UP /\ last_btn # Neither) => input.state = INPUT_DOUBLE_UP
    /\ (pre.state = INPUT_DOUBLE_DOWN /\ last_btn # Neither) => input.state = INPUT_DOUBLE_DOWN
    /\ (pre.state \in {INPUT_DOUBLE_UP, INPUT_DOUBLE_DOWN} /\ last_btn = Neither)
          => input.state = INPUT_IDLE
    /\ pre.state \in {INPUT_DOUBLE_UP, INPUT_DOUBLE_DOWN}
          => input.state \in {pre.state, INPUT_IDLE}

\* DoubleUp survives a press of the other line
C11_Witness ==
    /\ pre.state = INPUT_DOUBLE_UP
    /\ last_btn = DownOnly
    /\ input.state = INPUT_DOUBLE_UP

\* C14: save_hold is changed only by a step taken in Idle with input Both
\* (plus one, or 0 when that step enters Save); every other step, those that
\* enter Idle from Up, Down, Save, DoubleUp or DoubleDown included, leaves it
\* as it was.
C14_SaveHoldFrame ==
    /\ (last_btn # NoBtn /\ ~(pre.state = INPUT_IDLE /\ last_btn = Both))
          => input.save_hold = pre.save_hold
    /\ (pre.state = INPUT_IDLE /\ last_btn = Both)
          => IF input.state = INPUT_SAVE
             THEN input.save_hold = 0
             ELSE input.save_hold = pre.save_hold + 1

\* a release from Down into Idle that keeps a partial hold count
C14_Witness ==
    /\ pre.state = INPUT_DOWN
    /\ last_btn = Neither
    /\ input.state = INPUT_IDLE
    /\ pre.save_hold > 0
    /\ input.save_hold = pre.save_hold

\* C15: single-press rows. Up goes to Down on DownOnly and Down goes to Up on
\* UpOnly directly, Up and Down go to Idle on Both, and none of these four
\* steps sets a waiting flag or reloads double_click_timer.
C15_PressRows ==
    /\ (pre.state = INPUT_UP /\ last_btn = DownOnly) => input.state = INPUT_DOWN
    /\ (pre.state = INPUT_DOWN /\ last_btn = UpOnly) => input.state = INPUT_UP
    /\ (pre.state \in {INPUT_UP, INPUT_DOWN} /\ last_btn = Both) => input.state = INPUT_IDLE
    /\ (\/ (pre.state = INPUT_UP /\ last_btn \in {DownOnly, Both})
        \/ (pre.state = INPUT_DOWN /\ last_btn \in {UpOnly, Both}))
          => /\ input.waiting_for_second_up => pre.waiting_for_second_up
             /\ input.waiting_for_second_down => pre.waiting_for_second_down
             /\ input.double_click_timer =
                  (IF pre.double_click_timer > 0 THEN pre.double_click_timer - 1 ELSE 0)

\* Down left by Both while the window of an earlier Up click is still running
C15_Witness ==
    /\ pre.state = INPUT_DOWN
    /\ last_btn = Both
    /\ input.state = INPUT_IDLE
    /\ pre.double_click_timer > 1
    /\ input.waiting_for_second_up
    /\ ~input.waiting_for_second_down

\* C16: a waiting flag never outlives the timer: whenever
\* waiting_for_second_up or waiting_for_second_down is set,
\* double_click_timer > 0.
C16_FlagImpliesTimer ==
    (input.waiting_for_second_up \/ input.waiting_for_second_down)
        => input.double_click_timer > 0

\* C17: waiting_for_second_up and waiting_for_second_down are never both set.
C17_FlagsExclusive ==
    ~(input.waiting_for_second_up /\ input.waiting_for_second_down)

\* C20: the gesture counters stay bounded: save_hold is in
\* 0..SAVE_HOLD_THRESHOLD-1 and double_click_timer is in
\* 0..DOUBLE_CLICK_WINDOW after every step, so neither 8-bit counter wraps.
C20_CountersBounded ==
    /\ input.save_hold \in 0..(SAVE_HOLD_THRESHOLD - 1)
    /\ input.double_click_timer \in 0..DOUBLE_CLICK_WINDOW

\* both counters at their largest value at once
C20_Witness ==
    /\ input.save_hold = SAVE_HOLD_THRESHOLD - 1
    /\ input.double_click_timer = DOUBLE_CLICK_WINDOW
    /\ last_btn = Neither

\* C13: debounce counter invariant. After every btn_debounce call the count
\* lies in 0..DEBOUNCE_THRESHOLD, below the 8-bit limit; it is 0 after a call
\* whose sample differed from last_state and 0 after a call that returned true.
C13_CountInvariant ==
    /\ debouncer.count \in 0..DEBOUNCE_THRESHOLD
    /\ debouncer.count < UINT8
    /\ run = 0 => debouncer.count = 0
    /\ confirmed => debouncer.count = 0

\* the count restarted by a confirmation in the middle of a held run
C13_Witness ==
    /\ confirmed
    /\ run = DEBOUNCE_THRESHOLD
    /\ debouncer.count = 0

\* C12: unconfirmed ticks are no-ops downstream. On every btn_timer tick on
\* which btn_debounce returns false, the recognizer's whole state and the
\* dispatcher's last_input are unchanged and the callback is not invoked.
C12_UnconfirmedNoOp ==
    [][ (timer_on /\ ~confirmed') =>
          /\ input' = input
          /\ last_input' = last_input
          /\ called' = "none"
          /\ last_called' = last_called ]_vars

\* an unconfirmed tick taken in the middle of an Up press with the window armed
C12_Witness ==
    /\ timer_on
    /\ ~confirmed
    /\ debouncer.count > 0
    /\ input.state = INPUT_UP
    /\ input.waiting_for_second_down
    /\ last_input = INPUT_UP
    /\ called = "none"

\* C18: dispatcher and recognizer stay in sync. With a handler installed,
\* after every tick last_input equals the recognizer's current state, and the
\* gesture the consumer received last is the recognizer's current gesture.
C18_DispatchInSync ==
    /\ last_input = input.state
    /\ last_called # "none" => last_called = input.state

\* a few ticks after DoubleUp was reported
C18_Witness ==
    /\ btn_report_gesture = "set"
    /\ ~confirmed
    /\ debouncer.count > 0
    /\ last_called = INPUT_DOUBLE_UP
    /\ last_input = INPUT_DOUBLE_UP
    /\ input.state = INPUT_DOUBLE_UP

\* C19: release always recovers. A confirmed Neither tick leaves the
\* recognizer in Idle whatever state it was in, and if from some tick on every
\* raw sample is Neither (the debouncer's last_state is the sample of the
\* latest tick), then eventually the recognizer's state and the dispatcher's
\* last_input are both Idle and stay Idle for ever.
C19_ReleaseRecovers ==
    /\ []((confirmed /\ debouncer.last_state = Neither) => input.state = INPUT_IDLE)
    /\ (<>[](debouncer.last_state = Neither)
          => <>[](input.state = INPUT_IDLE /\ last_input = INPUT_IDLE))

\* the release of a double click reported to the consumer
C19_Witness ==
    /\ confirmed
    /\ debouncer.last_state = Neither
    /\ called = INPUT_IDLE
    /\ input.state = INPUT_IDLE
    /\ last_input = INPUT_IDLE
    /\ input.waiting_for_second_down
    /\ input.double_click_timer = 0
====
